---- MODULE Spec2Model ----
(***************************************************************************)
(* The ape bytecode compiler and its stack VM.                             *)
(*                                                                         *)
(* An AST is compiled by Compiler.Compile into Bytecode (instruction bytes *)
(* plus a constant pool), which VM.Run executes one instruction per step.  *)
(* A session is a sequence of compile/run rounds that hand the symbol      *)
(* table, the constants and the globals array from one round to the next.  *)
(***************************************************************************)
EXTENDS Integers, Sequences, FiniteSets, TLC

VARIABLES
    round,      \* number of the compile/run pair of the session (1-based)
    line,       \* index in Programs of the AST compiled in this round
    iter,       \* order in which Go iterates the Pairs map of hash literals
    status,     \* "idle" | "compiled" | "cerr" | "running" | "done" | "error" | "panic"
    errmsg,     \* error returned by Compile or Run ("" when nil)
    symtab,     \* the global symbol table kept by the session
    consts,     \* the constants slice kept by the session
    globals,    \* the globals array kept by the session
    initial,    \* the compiler of the round as NewWithState built it
    bytecode,   \* Bytecode() of the round's compiler
    constants,  \* vm.constants
    items,      \* vm.stack.items (slots never written are nil and not stored)
    sp,         \* vm.stack.pointer
    frames,     \* vm.frames, the current frame last
    stmtEnds,   \* offsets at which the round's top-level statements end
    env,        \* reference values of the session's global names
    expected,   \* reference value of the round's last expression statement
    callInfo,   \* what the last executed Call saw, one record per open call
    lastRet,    \* what the last executed ReturnValue/Return did
    comp,       \* a compiler walking into and out of function literals
    resolved,   \* what its last compile of an identifier resolved and emitted
    looked      \* the last byte handed to Lookup, and what Lookup returned

vars == <<round, line, iter, status, errmsg, symtab, consts, globals, initial, bytecode,
          constants, items, sp, frames, stmtEnds, env, expected, callInfo, lastRet,
          comp, resolved, looked>>

\* The variables of a session, and those of the compiler walking scopes.
sessionVars == <<round, line, iter, status, errmsg, symtab, consts, globals, initial,
                 bytecode, constants, items, sp, frames, stmtEnds, env, expected,
                 callInfo, lastRet>>
scopeVars == <<comp, resolved>>
lookupVars == <<looked>>

-----------------------------------------------------------------------------
(* Bounds of the model *)

MaxRounds == 2

-----------------------------------------------------------------------------
(* Limits of the VM *)

GlobalsLimit == 65536
StackLimit == 2048
FrameLimit == 1024

-----------------------------------------------------------------------------
(* Opcodes: one byte each, numbered in the order of the opcode table.      *)

Constant == 0
Pop == 1
Add == 2
Sub == 3
Mul == 4
Div == 5
True == 6
False == 7
Null == 8
Equal == 9
NotEqual == 10
GreaterThan == 11
Bang == 12
Minus == 13
Jump == 14
JumpNotTruthy == 15
SetGlobal == 16
GetGlobal == 17
SetLocal == 18
GetLocal == 19
GetBuiltin == 20
GetFree == 21
Array == 22
Hash == 23
Index == 24
Call == 25
ReturnValue == 26
Return == 27
Closure == 28

\* Operand widths in bytes of each opcode.
OperandWidths(op) ==
    CASE op \in {Constant, Jump, JumpNotTruthy, SetGlobal, GetGlobal, Array, Hash} -> <<2>>
      [] op \in {SetLocal, GetLocal, GetBuiltin, GetFree, Call} -> <<1>>
      [] op = Closure -> <<2, 1>>
      [] OTHER -> <<>>

\* One operand, big-endian, truncated to its width.
EncodeOperand(width, o) ==
    IF width = 2 THEN <<(o \div 256) % 256, o % 256>> ELSE <<o % 256>>

RECURSIVE EncodeOperands(_, _)
EncodeOperands(widths, operands) ==
    IF widths = <<>> \/ operands = <<>> THEN <<>>
    ELSE EncodeOperand(Head(widths), Head(operands))
         \o EncodeOperands(Tail(widths), Tail(operands))

\* operation.NewInstruction: the opcode byte followed by its operands.
NewInstruction(op, operands) ==
    <<op>> \o EncodeOperands(OperandWidths(op), operands)

\* Byte at 0-based offset i of an instruction stream.
ByteAt(ins, i) == ins[i + 1]

\* operation.ReadUint16(ins[i:]) and operation.ReadUint8(ins[i:]).
ReadUint16(ins, i) == ByteAt(ins, i) * 256 + ByteAt(ins, i + 1)
ReadUint8(ins, i) == ByteAt(ins, i)

\* The name of each opcode, in the order of the opcodes.
OpcodeNames ==
    <<"Constant", "Pop", "Add", "Sub", "Mul", "Div", "True", "False", "Null", "Equal",
      "NotEqual", "GreaterThan", "Bang", "Minus", "Jump", "JumpNotTruthy", "SetGlobal",
      "GetGlobal", "SetLocal", "GetLocal", "GetBuiltin", "GetFree", "Array", "Hash",
      "Index", "Call", "ReturnValue", "Return", "Closure">>

Operation(name, sizes) == [Name |-> name, OperandSizes |-> sizes]
NoOperation == Operation("", <<>>)
NoError == [text |-> "", number |-> 0]

\* var operations: the map from Opcode to Operation
operations ==
    [op \in {Constant, Add} |->
        IF op = Constant THEN Operation("Constant", <<2>>) ELSE Operation("Add", <<>>)]

\* Lookup(value): (operation, error)
Lookup(value) ==
    IF value \in DOMAIN operations
    THEN [operation |-> operations[value], err |-> NoError]
    ELSE [operation |-> NoOperation, err |-> [text |-> "Undefined Opcode: ", number |-> value]]

-----------------------------------------------------------------------------
(* Values (data.Data).  Every value is a record of the same shape.         *)

MkData(t, n, e, i, l, p) ==
    [type |-> t, v |-> n, elems |-> e, ins |-> i, localCount |-> l, paramCount |-> p]

Integer(n) == MkData("INTEGER", n, <<>>, <<>>, 0, 0)
TRUE_ == MkData("BOOLEAN", 1, <<>>, <<>>, 0, 0)
FALSE_ == MkData("BOOLEAN", 0, <<>>, <<>>, 0, 0)
NULL == MkData("NULL", 0, <<>>, <<>>, 0, 0)
ArrayData(e) == MkData("ARRAY", 0, e, <<>>, 0, 0)
HashData(e) == MkData("HASH", 0, e, <<>>, 0, 0)
CompiledFunction(i, l, p) == MkData("COMPILED_FUNCTION", 0, <<>>, i, l, p)
\* The nil interface value held by a slot that was never written.
Nil == MkData("nil", 0, <<>>, <<>>, 0, 0)

BoolData(b) == IF b THEN TRUE_ ELSE FALSE_

-----------------------------------------------------------------------------
(* The AST consumed by the compiler (package ast).                         *)

NoNode == [kind |-> "nil"]
Program(stmts) == [kind |-> "Program", stmts |-> stmts]
ExpressionStatement(e) == [kind |-> "ExpressionStatement", expr |-> e]
LetStatement(n, e) == [kind |-> "LetStatement", name |-> n, value |-> e]
ReturnStatement(e) == [kind |-> "ReturnStatement", value |-> e]
BlockStatement(stmts) == [kind |-> "BlockStatement", stmts |-> stmts]
IntegerLiteral(n) == [kind |-> "IntegerLiteral", value |-> n]
BooleanLiteral(b) == [kind |-> "Boolean", value |-> b]
Identifier(n) == [kind |-> "Identifier", value |-> n]
InfixExpression(l, op, r) == [kind |-> "InfixExpression", op |-> op, left |-> l, right |-> r]
PrefixExpression(op, r) == [kind |-> "PrefixExpression", op |-> op, right |-> r]
ArrayLiteral(es) == [kind |-> "ArrayLiteral", elems |-> es]
\* pairs lists the entries <<key, value>> of the Pairs map; the map itself is unordered
HashLiteral(ps) == [kind |-> "HashLiteral", pairs |-> ps]
IndexExpression(l, i) == [kind |-> "IndexExpression", left |-> l, index |-> i]
IfExpression(c, t, e) == [kind |-> "IfExpression", cond |-> c, consequent |-> t, alternate |-> e]
FunctionLiteral(ps, b) == [kind |-> "FunctionLiteral", params |-> ps, body |-> b]
CallExpression(f, as) == [kind |-> "CallExpression", function |-> f, args |-> as]

\* Textual form of a natural number: its decimal digits as character codes.
RECURSIVE Digits(_)
Digits(n) == IF n < 10 THEN <<48 + n>> ELSE Digits(n \div 10) \o <<48 + (n % 10)>>

\* node.String() of an expression used as a hash key, as character codes.
String(node) ==
    CASE node.kind = "IntegerLiteral" -> Digits(node.value)
      [] node.kind = "Boolean" ->
            IF node.value THEN <<116, 114, 117, 101>> ELSE <<102, 97, 108, 115, 101>>
      [] OTHER -> <<>>

\* s < t for Go strings: bytewise lexicographic order.
RECURSIVE StringLess(_, _)
StringLess(s, t) ==
    IF t = <<>> THEN FALSE
    ELSE IF s = <<>> THEN TRUE
    ELSE IF Head(s) # Head(t) THEN Head(s) < Head(t)
    ELSE StringLess(Tail(s), Tail(t))

RECURSIVE Reverse(_)
Reverse(s) == IF s = <<>> THEN <<>> ELSE Reverse(Tail(s)) \o <<Head(s)>>

\* `for k := range node.Pairs`: the map's entries in the order of this run.
RangePairs(pairs, it) == IF it = 1 THEN Reverse(pairs) ELSE pairs

\* One pass of sort.Slice's insertion sort: p moves left while its key is less.
RECURSIVE InsertPair(_, _)
InsertPair(sorted, p) ==
    IF sorted = <<>> THEN <<p>>
    ELSE LET last == sorted[Len(sorted)] IN
         IF StringLess(String(p[1]), String(last[1]))
         THEN InsertPair(SubSeq(sorted, 1, Len(sorted) - 1), p) \o <<last>>
         ELSE sorted \o <<p>>

\* sort.Slice(keys, keys[i].String() < keys[j].String()) on fewer than 12 keys.
RECURSIVE SortPairs(_)
SortPairs(ps) ==
    IF ps = <<>> THEN <<>>
    ELSE InsertPair(SortPairs(SubSeq(ps, 1, Len(ps) - 1)), ps[Len(ps)])

-----------------------------------------------------------------------------
(* Symbol tables (package symbols).  c.symbols is the chain of tables, the *)
(* global table first and the current table last.                          *)

Names == {"a", "b", "f", "g", "x", "len"}
Builtins == <<"len">>

GlobalScope == "GLOBAL"
LocalScope == "LOCAL"
BuiltinScope == "BUILTIN"
FreeScope == "FREE"

Symbol(n, s, i) == [Name |-> n, Scope |-> s, Index |-> i]
NoSymbol == Symbol("", "", 0)

\* symbols.New / symbols.NewEnclosed: an empty table.
NewSymbolTable == [store |-> [n \in Names |-> NoSymbol], DefinitionCount |-> 0, Free |-> <<>>]

\* Define on the current table of the chain.
Define(tables, name) ==
    LET d == Len(tables)
        t == tables[d]
        sym == Symbol(name, IF d = 1 THEN GlobalScope ELSE LocalScope, t.DefinitionCount)
    IN  [tables |-> [tables EXCEPT ![d] =
                        [t EXCEPT !.store[name] = sym,
                                  !.DefinitionCount = t.DefinitionCount + 1]],
         symbol |-> sym]

DefineBuiltin(t, index, name) ==
    [t EXCEPT !.store[name] = Symbol(name, BuiltinScope, index)]

\* define-free on table d: record the original, bind the name to the Free symbol.
DefineFree(tables, d, original) ==
    LET t == tables[d]
        sym == Symbol(original.Name, FreeScope, Len(t.Free))
    IN  [tables |-> [tables EXCEPT ![d] =
                        [t EXCEPT !.Free = Append(t.Free, original),
                                  !.store[original.Name] = sym]],
         symbol |-> sym]

\* Resolve from table d of the chain.
RECURSIVE ResolveAt(_, _, _)
ResolveAt(tables, d, name) ==
    IF tables[d].store[name] # NoSymbol
    THEN [tables |-> tables, symbol |-> tables[d].store[name], ok |-> TRUE]
    ELSE IF d = 1 THEN [tables |-> tables, symbol |-> NoSymbol, ok |-> FALSE]
    ELSE LET r == ResolveAt(tables, d - 1, name) IN
         IF ~r.ok THEN r
         ELSE IF r.symbol.Scope \in {GlobalScope, BuiltinScope} THEN r
         ELSE LET f == DefineFree(r.tables, d, r.symbol) IN
              [tables |-> f.tables, symbol |-> f.symbol, ok |-> TRUE]

Resolve(tables, name) == ResolveAt(tables, Len(tables), name)

\* The table a fresh compiler starts from: every builtin defined.
RECURSIVE DefineBuiltins(_, _)
DefineBuiltins(t, i) ==
    IF i > Len(Builtins) THEN t
    ELSE DefineBuiltins(DefineBuiltin(t, i - 1, Builtins[i]), i + 1)

-----------------------------------------------------------------------------
(* The compiler (package compiler).  A Compiler is a record; every method  *)
(* returns the compiler it leaves behind.  currentScope is Len(scopes).    *)

Emitted(op, pos) == [Opcode |-> op, Position |-> pos]
NewScope == [instructions |-> <<>>, emitted |-> Emitted(0, 0), prevEmitted |-> Emitted(0, 0)]

\* compiler.New
New ==
    [constants |-> <<>>,
     symbols |-> <<DefineBuiltins(NewSymbolTable, 1)>>,
     scopes |-> <<NewScope>>,
     err |-> ""]

\* NewWithState that keeps the fresh symbol table of New.
NewWithStateFreshSymbols(syms, cs) == [New EXCEPT !.constants = cs]

\* compiler.NewWithState
NewWithState(syms, cs) == [New EXCEPT !.constants = cs, !.symbols = <<syms>>]

currentInstructions(c) == c.scopes[Len(c.scopes)].instructions

\* addConstant appends; the index it returns is Len of the pool before.
addConstant(c, d) == [c EXCEPT !.constants = Append(c.constants, d)]

\* emit = NewInstruction + addInstruction + setEmitted; returns the compiler.
\* The position emit returns is Len(currentInstructions(c)) before the call.
emit(c, op, operands) ==
    LET n == Len(c.scopes)
        sc == c.scopes[n]
    IN  [c EXCEPT !.scopes[n] =
            [instructions |-> sc.instructions \o NewInstruction(op, operands),
             emitted |-> Emitted(op, Len(sc.instructions)),
             prevEmitted |-> sc.emitted]]

isEmitted(c, code) ==
    IF Len(currentInstructions(c)) = 0 THEN FALSE
    ELSE c.scopes[Len(c.scopes)].emitted.Opcode = code

preventPop(c) ==
    LET n == Len(c.scopes)
        sc == c.scopes[n]
    IN  [c EXCEPT !.scopes[n] =
            [sc EXCEPT !.instructions = SubSeq(sc.instructions, 1, sc.emitted.Position),
                       !.emitted = sc.prevEmitted]]

\* changeInstruction overwrites the bytes at pos .. pos+Len(ins)-1.
changeInstruction(c, pos, ins) ==
    LET n == Len(c.scopes)
        old == c.scopes[n].instructions
    IN  [c EXCEPT !.scopes[n].instructions =
            [i \in 1..Len(old) |->
                IF i > pos /\ i <= pos + Len(ins) THEN ins[i - pos] ELSE old[i]]]

\* A changeOperand that leaves the operand as it was emitted.
changeOperandKept(c, pos, operand) == c

changeOperand(c, pos, operand) ==
    changeInstruction(c, pos, NewInstruction(ByteAt(currentInstructions(c), pos), <<operand>>))

\* A changeEmittedTo that changes nothing.
changeEmittedToNothing(c, code) == c

changeEmittedTo(c, code) ==
    LET n == Len(c.scopes)
        c1 == changeInstruction(c, c.scopes[n].emitted.Position, NewInstruction(code, <<>>))
    IN  [c1 EXCEPT !.scopes[n].emitted.Opcode = code]

enterScope(c) ==
    [c EXCEPT !.scopes = Append(c.scopes, NewScope),
              !.symbols = Append(c.symbols, NewSymbolTable)]

\* leaveScope drops the scope and the table; the caller reads the instructions first.
leaveScope(c) ==
    [c EXCEPT !.scopes = SubSeq(c.scopes, 1, Len(c.scopes) - 1),
              !.symbols = SubSeq(c.symbols, 1, Len(c.symbols) - 1)]

\* A loadSymbol that loads a free symbol as a local.
loadSymbolFreeAsLocal(c, s) ==
    CASE s.Scope = GlobalScope -> emit(c, GetGlobal, <<s.Index>>)
      [] s.Scope = LocalScope -> emit(c, GetLocal, <<s.Index>>)
      [] s.Scope = BuiltinScope -> emit(c, GetBuiltin, <<s.Index>>)
      [] s.Scope = FreeScope -> emit(c, GetLocal, <<s.Index>>)
      [] OTHER -> c

loadSymbol(c, s) ==
    CASE s.Scope = GlobalScope -> emit(c, GetGlobal, <<s.Index>>)
      [] s.Scope = LocalScope -> emit(c, GetLocal, <<s.Index>>)
      [] s.Scope = BuiltinScope -> emit(c, GetBuiltin, <<s.Index>>)
      [] s.Scope = FreeScope -> emit(c, GetFree, <<s.Index>>)
      [] OTHER -> c

RECURSIVE loadSymbols(_, _)
loadSymbols(c, ss) ==
    IF ss = <<>> THEN c ELSE loadSymbols(loadSymbol(c, Head(ss)), Tail(ss))

RECURSIVE defineParams(_, _)
defineParams(c, ps) ==
    IF ps = <<>> THEN c
    ELSE defineParams([c EXCEPT !.symbols = Define(c.symbols, Head(ps).value).tables], Tail(ps))

Fail(c, msg) == [c EXCEPT !.err = msg]

RECURSIVE Compile(_, _, _)

\* Compile each node of a list in order, stopping at the first error.
RECURSIVE CompileAll(_, _, _)
CompileAll(c, nodes, it) ==
    IF nodes = <<>> THEN c
    ELSE LET c1 == Compile(c, Head(nodes), it) IN
         IF c1.err # "" THEN c1 ELSE CompileAll(c1, Tail(nodes), it)

CompileExpressionStatement(c, node, it) ==
    LET c1 == Compile(c, node.expr, it) IN
    IF c1.err # "" THEN c1 ELSE emit(c1, Pop, <<>>)

InfixOpcode(operator) ==
    CASE operator = "+" -> Add
      [] operator = "-" -> Sub
      [] operator = "*" -> Mul
      [] operator = "/" -> Div
      [] operator = ">" -> GreaterThan
      [] operator = "==" -> Equal
      [] operator = "!=" -> NotEqual
      [] OTHER -> -1

\* An infix compile that does not flip the operands of "<".
CompileInfixExpressionUnflipped(c, node, it) ==
    LET c1 == Compile(c, node.left, it) IN
    IF c1.err # "" THEN c1
    ELSE LET c2 == Compile(c1, node.right, it) IN
         IF c2.err # "" THEN c2
         ELSE IF node.op = "<" THEN emit(c2, GreaterThan, <<>>)
         ELSE IF InfixOpcode(node.op) = -1 THEN Fail(c2, "unknown operator")
         ELSE emit(c2, InfixOpcode(node.op), <<>>)

CompileInfixExpression(c, node, it) ==
    IF node.op = "<"
    THEN LET c1 == Compile(c, node.right, it) IN
         IF c1.err # "" THEN c1
         ELSE LET c2 == Compile(c1, node.left, it) IN
              IF c2.err # "" THEN c2 ELSE emit(c2, GreaterThan, <<>>)
    ELSE LET c1 == Compile(c, node.left, it) IN
         IF c1.err # "" THEN c1
         ELSE LET c2 == Compile(c1, node.right, it) IN
              IF c2.err # "" THEN c2
              ELSE IF InfixOpcode(node.op) = -1 THEN Fail(c2, "unknown operator")
              ELSE emit(c2, InfixOpcode(node.op), <<>>)

CompilePrefixExpression(c, node, it) ==
    LET c1 == Compile(c, node.right, it) IN
    IF c1.err # "" THEN c1
    ELSE CASE node.op = "!" -> emit(c1, Bang, <<>>)
           [] node.op = "-" -> emit(c1, Minus, <<>>)
           [] OTHER -> Fail(c1, "unknown operator")

CompileIntegerLiteral(c, node) ==
    emit(addConstant(c, Integer(node.value)), Constant, <<Len(c.constants)>>)

CompileBoolean(c, node) ==
    IF node.value THEN emit(c, True, <<>>) ELSE emit(c, False, <<>>)

CompileArrayLiteral(c, node, it) ==
    LET c1 == CompileAll(c, node.elems, it) IN
    IF c1.err # "" THEN c1 ELSE emit(c1, Array, <<Len(node.elems)>>)

\* The keys in sorted order, each followed by its value.
RECURSIVE FlattenPairs(_)
FlattenPairs(ps) ==
    IF ps = <<>> THEN <<>> ELSE <<Head(ps)[1], Head(ps)[2]>> \o FlattenPairs(Tail(ps))

CompileHashLiteral(c, node, it) ==
    LET keys == SortPairs(RangePairs(node.pairs, it))
        c1 == CompileAll(c, FlattenPairs(keys), it)
    IN  IF c1.err # "" THEN c1 ELSE emit(c1, Hash, <<Len(node.pairs) * 2>>)

CompileIndexExpression(c, node, it) ==
    LET c1 == Compile(c, node.left, it) IN
    IF c1.err # "" THEN c1
    ELSE LET c2 == Compile(c1, node.index, it) IN
         IF c2.err # "" THEN c2 ELSE emit(c2, Index, <<>>)

CompileIfExpression(c, node, it) ==
    LET c1 == Compile(c, node.cond, it) IN
    IF c1.err # "" THEN c1
    ELSE
    LET jumpNotTruthyPos == Len(currentInstructions(c1))
        c2 == emit(c1, JumpNotTruthy, <<9999>>)
        c3 == Compile(c2, node.consequent, it)
    IN
    IF c3.err # "" THEN c3
    ELSE
    LET c4 == IF isEmitted(c3, Pop) THEN preventPop(c3) ELSE c3
        jumpPos == Len(currentInstructions(c4))
        c5 == emit(c4, Jump, <<9999>>)
        afterConsequentPos == Len(currentInstructions(c5))
        c6 == changeOperand(c5, jumpNotTruthyPos, afterConsequentPos)
        c7 == IF node.alternate.kind = "nil" THEN emit(c6, Null, <<>>)
              ELSE LET a == Compile(c6, node.alternate, it) IN
                   IF a.err # "" THEN a
                   ELSE IF isEmitted(a, Pop) THEN preventPop(a) ELSE a
    IN
    IF c7.err # "" THEN c7
    ELSE changeOperand(c7, jumpPos, Len(currentInstructions(c7)))

CompileLetStatement(c, node, it) ==
    LET d == Define(c.symbols, node.name)
        c1 == Compile([c EXCEPT !.symbols = d.tables], node.value, it)
    IN  IF c1.err # "" THEN c1
        ELSE IF d.symbol.Scope = GlobalScope THEN emit(c1, SetGlobal, <<d.symbol.Index>>)
        ELSE emit(c1, SetLocal, <<d.symbol.Index>>)

CompileIdentifier(c, node) ==
    LET r == Resolve(c.symbols, node.value) IN
    IF ~r.ok THEN Fail([c EXCEPT !.symbols = r.tables], "Variable is undefined")
    ELSE loadSymbol([c EXCEPT !.symbols = r.tables], r.symbol)

CompileFunctionLiteral(c, node, it) ==
    LET c1 == defineParams(enterScope(c), node.params)
        c2 == Compile(c1, node.body, it)
    IN
    IF c2.err # "" THEN c2
    ELSE
    LET c3 == IF isEmitted(c2, Pop) THEN changeEmittedTo(c2, ReturnValue) ELSE c2
        c4 == IF ~isEmitted(c3, ReturnValue) THEN emit(c3, Return, <<>>) ELSE c3
        freeSymbols == c4.symbols[Len(c4.symbols)].Free
        localCount == c4.symbols[Len(c4.symbols)].DefinitionCount
        instructions == currentInstructions(c4)
        c5 == loadSymbols(leaveScope(c4), freeSymbols)
        compiled == CompiledFunction(instructions, localCount, Len(node.params))
        fnIndex == Len(c5.constants)
    IN  emit(addConstant(c5, compiled), Closure, <<fnIndex, Len(freeSymbols)>>)

CompileReturnStatement(c, node, it) ==
    LET c1 == Compile(c, node.value, it) IN
    IF c1.err # "" THEN c1 ELSE emit(c1, ReturnValue, <<>>)

CompileCallExpression(c, node, it) ==
    LET c1 == Compile(c, node.function, it) IN
    IF c1.err # "" THEN c1
    ELSE LET c2 == CompileAll(c1, node.args, it) IN
         IF c2.err # "" THEN c2 ELSE emit(c2, Call, <<Len(node.args)>>)

\* Compiler.Compile: the type switch.
Compile(c, node, it) ==
    CASE node.kind = "Program" -> CompileAll(c, node.stmts, it)
      [] node.kind = "ExpressionStatement" -> CompileExpressionStatement(c, node, it)
      [] node.kind = "InfixExpression" -> CompileInfixExpression(c, node, it)
      [] node.kind = "PrefixExpression" -> CompilePrefixExpression(c, node, it)
      [] node.kind = "IntegerLiteral" -> CompileIntegerLiteral(c, node)
      [] node.kind = "Boolean" -> CompileBoolean(c, node)
      [] node.kind = "ArrayLiteral" -> CompileArrayLiteral(c, node, it)
      [] node.kind = "HashLiteral" -> CompileHashLiteral(c, node, it)
      [] node.kind = "IndexExpression" -> CompileIndexExpression(c, node, it)
      [] node.kind = "IfExpression" -> CompileIfExpression(c, node, it)
      [] node.kind = "LetStatement" -> CompileLetStatement(c, node, it)
      [] node.kind = "Identifier" -> CompileIdentifier(c, node)
      [] node.kind = "BlockStatement" -> CompileAll(c, node.stmts, it)
      [] node.kind = "FunctionLiteral" -> CompileFunctionLiteral(c, node, it)
      [] node.kind = "ReturnStatement" -> CompileReturnStatement(c, node, it)
      [] node.kind = "CallExpression" -> CompileCallExpression(c, node, it)
      [] OTHER -> c

\* Compiler.Bytecode
Bytecode(c) == [Instructions |-> currentInstructions(c), Constants |-> c.constants]

-----------------------------------------------------------------------------
(* The VM (package vm).  A machine is the record of the fields one         *)
(* iteration of Run's loop reads and writes; a helper that finds the       *)
(* machine already failed leaves it alone, as the Go code has returned.    *)

NewFrame(fn, framePointer) == [fn |-> fn, pointer |-> -1, framePointer |-> framePointer]

\* stack.items[i]; a slot never written holds nil.
Slot(its, i) == IF i >= 0 /\ i + 1 <= Len(its) THEN its[i + 1] ELSE Nil

\* stack.items[i] = d
Store(its, i, d) ==
    [k \in 1..(IF i + 1 > Len(its) THEN i + 1 ELSE Len(its)) |->
        IF k = i + 1 THEN d ELSE IF k <= Len(its) THEN its[k] ELSE Nil]

Machine ==
    [items |-> items, sp |-> sp, frames |-> frames, globals |-> globals,
     status |-> status, errmsg |-> errmsg]

\* return fmt.Errorf(...)
Error(m, msg) == IF m.status # "running" THEN m ELSE [m EXCEPT !.status = "error", !.errmsg = msg]

\* a Go runtime panic (index out of range, nil dereference, division by zero)
Panic(m, msg) == IF m.status # "running" THEN m ELSE [m EXCEPT !.status = "panic", !.errmsg = msg]

current(m) == m.frames[Len(m.frames)]

\* vm.frames.current().pointer += n
advance(m, n) ==
    IF m.status # "running" THEN m
    ELSE [m EXCEPT !.frames[Len(m.frames)].pointer = @ + n]

\* vm.frames.current().pointer = pos
setPointer(m, pos) ==
    IF m.status # "running" THEN m
    ELSE [m EXCEPT !.frames[Len(m.frames)].pointer = pos]

\* stack.push
push(m, d) ==
    IF m.status # "running" THEN m
    ELSE IF m.sp >= StackLimit THEN Error(m, "stack overflow")
    ELSE IF m.sp < 0 THEN Panic(m, "index out of range")
    ELSE [m EXCEPT !.items = Store(m.items, m.sp, d), !.sp = m.sp + 1]

\* stack.pop: the machine after the pop; popped(m) of the result is the value.
pop(m) ==
    IF m.status # "running" THEN m
    ELSE IF m.sp <= 0 THEN Panic([m EXCEPT !.sp = m.sp - 1], "index out of range")
    ELSE [m EXCEPT !.sp = m.sp - 1]

\* stack.popped: the slot at the stack pointer.
popped(m) == IF m.sp < 0 THEN Nil ELSE Slot(m.items, m.sp)

\* stack.top: the slot below the stack pointer.
top(m) == IF m.sp <= 0 THEN Nil ELSE Slot(m.items, m.sp - 1)

\* vm.stack.pointer = p
setStackPointer(m, p) == IF m.status # "running" THEN m ELSE [m EXCEPT !.sp = p]

\* frames.push: at capacity it refuses the frame and reports it to its caller.
\* Its callers (New, and the Call case of Run) drop what it returns.
pushFrame(m, f) ==
    IF m.status # "running" THEN m
    ELSE IF Len(m.frames) >= FrameLimit THEN m
    ELSE [m EXCEPT !.frames = Append(m.frames, f)]

\* frames.pop: the machine after the pop
popFrame(m) ==
    IF m.status # "running" THEN m
    ELSE [m EXCEPT !.frames = SubSeq(m.frames, 1, Len(m.frames) - 1)]

isTruthy(d) ==
    CASE d.type = "BOOLEAN" -> d.v = 1
      [] d.type = "NULL" -> FALSE
      [] OTHER -> TRUE

\* Whether ReadUint16 / ReadUint8 at pointer+1 finds its bytes.
HasOperand(ins, ptr, width) == ptr + width <= Len(ins) - 1

\* Go integer division truncates toward zero.
Quot(a, b) ==
    LET abs(x) == IF x < 0 THEN -x ELSE x
        q == abs(a) \div abs(b)
    IN  IF (a < 0) = (b < 0) THEN q ELSE -q

executeBinaryIntegerOp(m, op, left, right) ==
    CASE op = Add -> push(m, Integer(left.v + right.v))
      [] op = Sub -> push(m, Integer(left.v - right.v))
      [] op = Mul -> push(m, Integer(left.v * right.v))
      [] op = Div -> IF right.v = 0 THEN Panic(m, "integer divide by zero")
                     ELSE push(m, Integer(Quot(left.v, right.v)))
      [] OTHER -> Error(m, "unknown integer operator")

executeBinaryOp(m, op) ==
    LET m1 == pop(m)
        right == popped(m1)
        m2 == pop(m1)
        left == popped(m2)
    IN  IF m2.status # "running" THEN m2
        ELSE IF left.type = "nil" \/ right.type = "nil" THEN Panic(m2, "nil dereference")
        ELSE IF left.type = "INTEGER" /\ right.type = "INTEGER"
             THEN executeBinaryIntegerOp(m2, op, left, right)
        ELSE Error(m2, "unsupported types for binary operation")

executeComparison(m, op) ==
    LET m1 == pop(m)
        right == popped(m1)
        m2 == pop(m1)
        left == popped(m2)
    IN  IF m2.status # "running" THEN m2
        ELSE IF left.type = "nil" \/ right.type = "nil" THEN Panic(m2, "nil dereference")
        ELSE IF left.type = "INTEGER" /\ right.type = "INTEGER"
             THEN CASE op = Equal -> push(m2, BoolData(left.v = right.v))
                    [] op = NotEqual -> push(m2, BoolData(left.v # right.v))
                    [] OTHER -> push(m2, BoolData(left.v > right.v))
        ELSE CASE op = Equal -> push(m2, BoolData(left = right))
               [] op = NotEqual -> push(m2, BoolData(left # right))
               [] OTHER -> Error(m2, "unknown operator")

executeBangOp(m) ==
    LET m1 == pop(m) IN
    IF m1.status # "running" THEN m1 ELSE push(m1, BoolData(~isTruthy(popped(m1))))

executeMinusOp(m) ==
    LET m1 == pop(m)
        operand == popped(m1)
    IN  IF m1.status # "running" THEN m1
        ELSE IF operand.type = "nil" THEN Panic(m1, "nil dereference")
        ELSE IF operand.type # "INTEGER" THEN Error(m1, "unsupported type for negation")
        ELSE push(m1, Integer(-operand.v))

\* buildArray(start, end): the slots start .. end-1
buildArray(m, start, end) == ArrayData([k \in 1..(end - start) |-> Slot(m.items, start + k - 1)])

Hashable(d) == d.type \in {"INTEGER", "BOOLEAN", "STRING"}

\* buildHash(start, end): keys and values alternate in the slots
buildHash(m, start, end) == HashData([k \in 1..(end - start) |-> Slot(m.items, start + k - 1)])

HashKeysOk(m, start, end) ==
    \A k \in 1..(end - start) : (k % 2 = 1) => Hashable(Slot(m.items, start + k - 1))

\* The value a hash holds for a key: the last pair with that key, else Null.
HashGet(h, key) ==
    LET hits == {k \in 1..(Len(h.elems) \div 2) : h.elems[2 * k - 1] = key} IN
    IF hits = {} THEN NULL
    ELSE h.elems[2 * (CHOOSE k \in hits : \A j \in hits : j <= k)]

executeIndexExpr(m, left, index) ==
    IF m.status # "running" THEN m
    ELSE IF left.type = "nil" \/ index.type = "nil" THEN Panic(m, "nil dereference")
    ELSE IF left.type = "ARRAY" /\ index.type = "INTEGER"
         THEN IF index.v < 0 \/ index.v > Len(left.elems) - 1 THEN push(m, NULL)
              ELSE push(m, left.elems[index.v + 1])
    ELSE IF left.type = "HASH"
         THEN IF ~Hashable(index) THEN Error(m, "unusable as hash key")
              ELSE push(m, HashGet(left, index))
    ELSE Error(m, "index operator not supported")

-----------------------------------------------------------------------------
(* One iteration of Run's loop, per opcode.  m is the machine after the    *)
(* loop has incremented the pointer; ins and ptr are what it then read.    *)

Instructions(m) == current(m).fn.ins
Pointer(m) == current(m).pointer

\* Reading a global or a constant slot of a Go slice of length n.
globalAt(gs, i) == IF i + 1 <= Len(gs) THEN gs[i + 1] ELSE Nil

runPop(m) == pop(m)

runConstant(m) ==
    IF ~HasOperand(Instructions(m), Pointer(m), 2) THEN Panic(m, "slice bounds out of range")
    ELSE LET constIndex == ReadUint16(Instructions(m), Pointer(m) + 1)
             m1 == advance(m, 2)
         IN  IF constIndex >= Len(constants) THEN Panic(m1, "index out of range")
             ELSE push(m1, constants[constIndex + 1])

runTrue(m) == push(m, TRUE_)
runFalse(m) == push(m, FALSE_)
runNull(m) == push(m, NULL)
runBang(m) == executeBangOp(m)
runMinus(m) == executeMinusOp(m)
runBinaryOp(m) == executeBinaryOp(m, ByteAt(Instructions(m), Pointer(m)))
runComparison(m) == executeComparison(m, ByteAt(Instructions(m), Pointer(m)))

\* A Jump that takes the loop back to the first instruction of the stream.
runJumpToStart(m) == setPointer(m, 0 - 1)

runJump(m) ==
    IF ~HasOperand(Instructions(m), Pointer(m), 2) THEN Panic(m, "slice bounds out of range")
    ELSE setPointer(m, ReadUint16(Instructions(m), Pointer(m) + 1) - 1)

runJumpNotTruthy(m) ==
    IF ~HasOperand(Instructions(m), Pointer(m), 2) THEN Panic(m, "slice bounds out of range")
    ELSE LET pos == ReadUint16(Instructions(m), Pointer(m) + 1)
             m1 == pop(advance(m, 2))
         IN  IF m1.status = "running" /\ ~isTruthy(popped(m1)) THEN setPointer(m1, pos - 1)
             ELSE m1

runSetGlobal(m) ==
    IF ~HasOperand(Instructions(m), Pointer(m), 2) THEN Panic(m, "slice bounds out of range")
    ELSE LET index == ReadUint16(Instructions(m), Pointer(m) + 1)
             m1 == pop(advance(m, 2))
         IN  IF m1.status # "running" THEN m1
             ELSE [m1 EXCEPT !.globals = Store(m1.globals, index, popped(m1))]

runGetGlobal(m) ==
    IF ~HasOperand(Instructions(m), Pointer(m), 2) THEN Panic(m, "slice bounds out of range")
    ELSE LET index == ReadUint16(Instructions(m), Pointer(m) + 1)
         IN  push(advance(m, 2), globalAt(m.globals, index))

runSetLocal(m) ==
    IF ~HasOperand(Instructions(m), Pointer(m), 1) THEN Panic(m, "index out of range")
    ELSE LET localIndex == ReadUint8(Instructions(m), Pointer(m) + 1)
             m1 == advance(m, 1)
             frame == current(m1)
             m2 == pop(m1)
         IN  IF m2.status # "running" THEN m2
             ELSE IF frame.framePointer + localIndex >= StackLimit
                  THEN Panic(m2, "index out of range")
             ELSE [m2 EXCEPT !.items = Store(m2.items, frame.framePointer + localIndex, popped(m2))]

runGetLocal(m) ==
    IF ~HasOperand(Instructions(m), Pointer(m), 1) THEN Panic(m, "index out of range")
    ELSE LET localIndex == ReadUint8(Instructions(m), Pointer(m) + 1)
             m1 == advance(m, 1)
             frame == current(m1)
         IN  IF frame.framePointer + localIndex >= StackLimit
             THEN Panic(m1, "index out of range")
             ELSE push(m1, Slot(m1.items, frame.framePointer + localIndex))

runArray(m) ==
    IF ~HasOperand(Instructions(m), Pointer(m), 2) THEN Panic(m, "slice bounds out of range")
    ELSE LET numElements == ReadUint16(Instructions(m), Pointer(m) + 1)
             m1 == advance(m, 2)
         IN  IF m1.sp - numElements < 0 THEN Panic(m1, "index out of range")
             ELSE push(setStackPointer(m1, m1.sp - numElements),
                       buildArray(m1, m1.sp - numElements, m1.sp))

runHash(m) ==
    IF ~HasOperand(Instructions(m), Pointer(m), 2) THEN Panic(m, "slice bounds out of range")
    ELSE LET numElements == ReadUint16(Instructions(m), Pointer(m) + 1)
             m1 == advance(m, 2)
         IN  IF m1.sp - numElements < 0 THEN Panic(m1, "index out of range")
             ELSE IF ~HashKeysOk(m1, m1.sp - numElements, m1.sp)
                  THEN Error(m1, "unusable as hash key")
             ELSE push(setStackPointer(m1, m1.sp - numElements),
                       buildHash(m1, m1.sp - numElements, m1.sp))

runIndex(m) ==
    LET m1 == pop(m)
        index == popped(m1)
        m2 == pop(m1)
        left == popped(m2)
    IN  executeIndexExpr(m2, left, index)

runCall(m) ==
    LET m1 == advance(m, 1)
        fn == top(m1)
    IN  IF fn.type # "COMPILED_FUNCTION" THEN Error(m1, "calling non-function")
        ELSE LET frame == NewFrame(fn, m1.sp)
                 m2 == pushFrame(m1, frame)
             IN  setStackPointer(m2, frame.framePointer + fn.localCount)

\* A ReturnValue that resets the stack pointer to the frame pointer.
runReturnValueKeepsCallable(m) ==
    LET m1 == pop(m)
        value == popped(m1)
        frame == current(m1)
        m2 == popFrame(m1)
    IN  push(setStackPointer(m2, frame.framePointer), value)

runReturnValue(m) ==
    LET m1 == pop(m)
        value == popped(m1)
        frame == current(m1)
        m2 == popFrame(m1)
    IN  push(setStackPointer(m2, frame.framePointer - 1), value)

runReturn(m) ==
    LET frame == current(m)
        m1 == popFrame(m)
    IN  push(setStackPointer(m1, frame.framePointer - 1), NULL)

\* The opcodes the switch of Run has a case for.
Handled ==
    {Pop, Constant, True, False, Bang, Minus, Add, Sub, Mul, Div, Equal, NotEqual,
     GreaterThan, Jump, JumpNotTruthy, Null, SetGlobal, GetGlobal, SetLocal, GetLocal,
     Array, Hash, Index, Call, ReturnValue, Return}

-----------------------------------------------------------------------------
(* The programs a session draws its lines from.                            *)

Programs ==
    LET I(n) == IntegerLiteral(n)
        B(b) == BooleanLiteral(b)
        V(n) == Identifier(n)
        E(e) == ExpressionStatement(e)
        Bin(l, op, r) == InfixExpression(l, op, r)
        Blk(ss) == BlockStatement(ss)
        Fn(ps, ss) == FunctionLiteral(ps, BlockStatement(ss))
    IN
    << \* 1: 1 + 2
       Program(<<E(Bin(I(1), "+", I(2)))>>),
       \* 2: if (true) { 10 }; 3333
       Program(<<E(IfExpression(B(TRUE), Blk(<<E(I(10))>>), NoNode)), E(I(3333))>>),
       \* 3: let a = 1; let b = 2; a + b
       Program(<<LetStatement("a", I(1)), LetStatement("b", I(2)), E(Bin(V("a"), "+", V("b")))>>),
       \* 4: [1, 2, 3][1]
       Program(<<E(IndexExpression(ArrayLiteral(<<I(1), I(2), I(3)>>), I(1)))>>),
       \* 5: let f = fn(a) { fn(b) { a + b } }; let g = f(2); g(3)
       Program(<<LetStatement("f", Fn(<<V("a")>>, <<E(Fn(<<V("b")>>, <<E(Bin(V("a"), "+", V("b")))>>))>>)),
                 LetStatement("g", CallExpression(V("f"), <<I(2)>>)),
                 E(CallExpression(V("g"), <<I(3)>>))>>),
       \* 6: let f = fn() { let a = true; a }; f()
       Program(<<LetStatement("f", Fn(<<>>, <<LetStatement("a", B(TRUE)), E(V("a"))>>)),
                 E(CallExpression(V("f"), <<>>))>>),
       \* 7: let g = fn() { }; g()
       Program(<<LetStatement("g", Fn(<<>>, <<>>)), E(CallExpression(V("g"), <<>>))>>),
       \* 8: let f = fn(a) { a }; f(f)
       Program(<<LetStatement("f", Fn(<<V("a")>>, <<E(V("a"))>>)),
                 E(CallExpression(V("f"), <<V("f")>>))>>),
       \* 9: let f = fn() { true }; f(f)
       Program(<<LetStatement("f", Fn(<<>>, <<E(B(TRUE))>>)),
                 E(CallExpression(V("f"), <<V("f")>>))>>),
       \* 10: if (true) { let a = 1 }
       Program(<<E(IfExpression(B(TRUE), Blk(<<LetStatement("a", I(1))>>), NoNode))>>),
       \* 11: if (1 < 2) { 10 } else { 20 }
       Program(<<E(IfExpression(Bin(I(1), "<", I(2)), Blk(<<E(I(10))>>), Blk(<<E(I(20))>>)))>>),
       \* 12: if (false) { 10 }
       Program(<<E(IfExpression(B(FALSE), Blk(<<E(I(10))>>), NoNode))>>),
       \* 13: 1 < 2
       Program(<<E(Bin(I(1), "<", I(2)))>>),
       \* 14: 2 < 1
       Program(<<E(Bin(I(2), "<", I(1)))>>),
       \* 15: 2 < 2
       Program(<<E(Bin(I(2), "<", I(2)))>>),
       \* 16: {1: 10, 2: 20}[2]
       Program(<<E(IndexExpression(HashLiteral(<< <<I(1), I(10)>>, <<I(2), I(20)>> >>), I(2)))>>),
       \* 17: {1: 10, 1: 20}[1]
       Program(<<E(IndexExpression(HashLiteral(<< <<I(1), I(10)>>, <<I(1), I(20)>> >>), I(1)))>>),
       \* 18: !(-5 == 5)
       Program(<<E(PrefixExpression("!", Bin(PrefixExpression("-", I(5)), "==", I(5))))>>),
       \* 19: 6 / 2 * 3 - 1 != 8
       Program(<<E(Bin(Bin(Bin(Bin(I(6), "/", I(2)), "*", I(3)), "-", I(1)), "!=", I(8)))>>),
       \* 20: let x = 5;
       Program(<<LetStatement("x", I(5))>>),
       \* 21: x + 1
       Program(<<E(Bin(V("x"), "+", I(1)))>>),
       \* 22: f()
       Program(<<E(CallExpression(V("f"), <<>>))>>),
       \* 23: true + 1
       Program(<<E(Bin(B(TRUE), "+", I(1)))>>),
       \* 24: 1 / 0
       Program(<<E(Bin(I(1), "/", I(0)))>>),
       \* 25: return 1;
       Program(<<ReturnStatement(I(1))>>),
       \* 26: len
       Program(<<E(V("len"))>>),
       \* 27: 1 % 2
       Program(<<E(Bin(I(1), "%", I(2)))>>),
       \* 28: let x = true; if (x) { 7 } else { }
       Program(<<LetStatement("x", B(TRUE)),
                 E(IfExpression(V("x"), Blk(<<E(I(7))>>), Blk(<<>>)))>>),
       \* 29: let x = x + 1; x
       Program(<<LetStatement("x", Bin(V("x"), "+", I(1))), E(V("x"))>>),
       \* 30: let a = 1; a()
       Program(<<LetStatement("a", I(1)), E(CallExpression(V("a"), <<>>))>>),
       \* 31: let f = fn() { f() }; f()
       Program(<<LetStatement("f", Fn(<<>>, <<E(CallExpression(V("f"), <<>>))>>)),
                 E(CallExpression(V("f"), <<>>))>>),
       \* 32: let f = fn(a, b, g, x, len) { f() }; f()
       Program(<<LetStatement("f", Fn(<<V("a"), V("b"), V("g"), V("x"), V("len")>>,
                                      <<E(CallExpression(V("f"), <<>>))>>)),
                 E(CallExpression(V("f"), <<>>))>>),
       \* 33: 7; fn() { 1 % 2 }
       Program(<<E(I(7)), E(Fn(<<>>, <<E(Bin(I(1), "%", I(2)))>>))>>),
       \* 34: if (true) { if (false) { 1 } else { 2 } } else { 3 }
       Program(<<E(IfExpression(B(TRUE),
                                Blk(<<E(IfExpression(B(FALSE), Blk(<<E(I(1))>>),
                                                     Blk(<<E(I(2))>>)))>>),
                                Blk(<<E(I(3))>>)))>>),
       \* 35: if (true) { if (true) { 1 } }; 2
       Program(<<E(IfExpression(B(TRUE),
                                Blk(<<E(IfExpression(B(TRUE), Blk(<<E(I(1))>>), NoNode))>>),
                                NoNode)),
                 E(I(2))>>),
       \* 36: let f = fn() { if (false) { true } }; f()
       Program(<<LetStatement("f", Fn(<<>>, <<E(IfExpression(B(FALSE), Blk(<<E(B(TRUE))>>),
                                                                NoNode))>>)),
                 E(CallExpression(V("f"), <<>>))>>),
       \* 37: let f = fn() { let a = true }; f()
       Program(<<LetStatement("f", Fn(<<>>, <<LetStatement("a", B(TRUE))>>)),
                 E(CallExpression(V("f"), <<>>))>>),
       \* 38: let f = fn() { return false; }; f()
       Program(<<LetStatement("f", Fn(<<>>, <<ReturnStatement(B(FALSE))>>)),
                 E(CallExpression(V("f"), <<>>))>>),
       \* 39: let f = fn() { if (true) { let a = true }; false }; f()
       Program(<<LetStatement("f", Fn(<<>>,
                    <<E(IfExpression(B(TRUE), Blk(<<LetStatement("a", B(TRUE))>>), NoNode)),
                      E(B(FALSE))>>)),
                 E(CallExpression(V("f"), <<>>))>>)
    >>

\* The lines whose runs recurse until a capacity is met, and the other lines.
DeepLines == {31, 32}
Lines == (1..Len(Programs)) \ DeepLines

\* The nodes directly below a node of the AST, in the order Compile visits them.
Children(node) ==
    CASE node.kind \in {"Program", "BlockStatement"} -> node.stmts
      [] node.kind = "ExpressionStatement" -> <<node.expr>>
      [] node.kind \in {"LetStatement", "ReturnStatement"} -> <<node.value>>
      [] node.kind = "InfixExpression" -> <<node.left, node.right>>
      [] node.kind = "PrefixExpression" -> <<node.right>>
      [] node.kind = "ArrayLiteral" -> node.elems
      [] node.kind = "HashLiteral" -> FlattenPairs(node.pairs)
      [] node.kind = "IndexExpression" -> <<node.left, node.index>>
      [] node.kind = "IfExpression" ->
            <<node.cond, node.consequent>>
            \o (IF node.alternate.kind = "nil" THEN <<>> ELSE <<node.alternate>>)
      [] node.kind = "FunctionLiteral" -> <<node.body>>
      [] node.kind = "CallExpression" -> <<node.function>> \o node.args
      [] OTHER -> <<>>

\* Whether every node of the AST is of one of the kinds.
RECURSIVE KindsWithin(_, _)
KindsWithin(node, kinds) ==
    /\ node.kind \in kinds
    /\ \A k \in 1..Len(Children(node)) : KindsWithin(Children(node)[k], kinds)

Kinds ==
    {"Program", "ExpressionStatement", "LetStatement", "ReturnStatement", "BlockStatement",
     "IntegerLiteral", "Boolean", "Identifier", "InfixExpression", "PrefixExpression",
     "ArrayLiteral", "HashLiteral", "IndexExpression", "IfExpression", "FunctionLiteral",
     "CallExpression"}

\* Whether the AST holds a hash literal (whose Pairs map Go ranges over).
HasHashLiteral(node) == ~KindsWithin(node, Kinds \ {"HashLiteral"})

\* The iteration orders a compile of the program can meet.
IterOrders(prog) == IF HasHashLiteral(prog) THEN {0, 1} ELSE {0}

-----------------------------------------------------------------------------
(* Reference values: what the language gives an expression, computed on    *)
(* the AST.  Unknown stands for a construct the reference does not cover   *)
(* (functions, calls, collections) and for a run-time error.               *)

Unknown == MkData("?", 0, <<>>, <<>>, 0, 0)

RefInfix(op, l, r) ==
    IF l.type = "INTEGER" /\ r.type = "INTEGER"
    THEN CASE op = "+" -> Integer(l.v + r.v)
           [] op = "-" -> Integer(l.v - r.v)
           [] op = "*" -> Integer(l.v * r.v)
           [] op = "/" -> IF r.v = 0 THEN Unknown ELSE Integer(Quot(l.v, r.v))
           [] op = "<" -> BoolData(l.v < r.v)
           [] op = ">" -> BoolData(l.v > r.v)
           [] op = "==" -> BoolData(l.v = r.v)
           [] op = "!=" -> BoolData(l.v # r.v)
           [] OTHER -> Unknown
    ELSE IF l.type = "BOOLEAN" /\ r.type = "BOOLEAN" /\ op \in {"==", "!="}
    THEN BoolData((op = "==") = (l.v = r.v))
    ELSE Unknown

RECURSIVE RefEval(_, _)
RECURSIVE RefBlock(_, _, _)

\* [env, val, ok] of the statements from `last` on; val is the value of the
\* last expression statement, `last` when there is none.
RefBlock(stmts, e, last) ==
    IF stmts = <<>> THEN [env |-> e, val |-> last, ok |-> TRUE]
    ELSE LET st == Head(stmts) IN
         CASE st.kind = "ExpressionStatement" ->
                LET r == RefEval(st.expr, e) IN
                IF ~r.ok THEN r ELSE RefBlock(Tail(stmts), r.env, r.val)
           [] st.kind = "LetStatement" ->
                LET r == RefEval(st.value, e) IN
                IF ~r.ok THEN r
                ELSE RefBlock(Tail(stmts), [r.env EXCEPT ![st.name] = r.val], last)
           [] OTHER -> [env |-> e, val |-> Unknown, ok |-> FALSE]

RefEval(node, e) ==
    CASE node.kind = "IntegerLiteral" -> [env |-> e, val |-> Integer(node.value), ok |-> TRUE]
      [] node.kind = "Boolean" -> [env |-> e, val |-> BoolData(node.value), ok |-> TRUE]
      [] node.kind = "Identifier" ->
            [env |-> e, val |-> e[node.value], ok |-> e[node.value].type \notin {"?", "nil"}]
      [] node.kind = "PrefixExpression" ->
            LET r == RefEval(node.right, e) IN
            IF ~r.ok THEN r
            ELSE IF node.op = "!" THEN [r EXCEPT !.val = BoolData(~isTruthy(r.val))]
            ELSE IF node.op = "-" /\ r.val.type = "INTEGER"
                 THEN [r EXCEPT !.val = Integer(-r.val.v)]
            ELSE [r EXCEPT !.ok = FALSE]
      [] node.kind = "InfixExpression" ->
            LET l == RefEval(node.left, e) IN
            IF ~l.ok THEN l
            ELSE LET r == RefEval(node.right, l.env) IN
                 IF ~r.ok THEN r
                 ELSE LET v == RefInfix(node.op, l.val, r.val) IN
                      [env |-> r.env, val |-> v, ok |-> v # Unknown]
      [] node.kind = "IfExpression" ->
            LET c == RefEval(node.cond, e) IN
            IF ~c.ok THEN c
            ELSE IF isTruthy(c.val) THEN RefBlock(node.consequent.stmts, c.env, NULL)
            ELSE IF node.alternate.kind = "nil" THEN [c EXCEPT !.val = NULL]
            ELSE RefBlock(node.alternate.stmts, c.env, NULL)
      [] OTHER -> [env |-> e, val |-> Unknown, ok |-> FALSE]

\* The reference run of a program from the session's environment.
RefRun(prog, e) ==
    LET r == RefBlock(prog.stmts, e, Nil) IN
    IF r.ok THEN r ELSE [env |-> [n \in Names |-> Unknown], val |-> Unknown, ok |-> FALSE]

\* Offsets at which the top-level statements of a program end, compiled from c.
StatementEnds(c, prog, it) ==
    {Len(currentInstructions(Compile(c, Program(SubSeq(prog.stmts, 1, k)), it))) :
        k \in 1..Len(prog.stmts)}

-----------------------------------------------------------------------------
(* The session.                                                            *)

NoBytecode == [Instructions |-> <<>>, Constants |-> <<>>]
NoCall == [valid |-> FALSE, depth |-> 0, slot |-> 0, below |-> <<>>, value |-> Nil]

NoLookup == [valid |-> FALSE, byte |-> 0, result |-> Lookup(0)]

NoResolved ==
    [valid |-> FALSE, name |-> "", from |-> 0, definedAt |-> 0, symbol |-> NoSymbol,
     op |-> 0, operand |-> 0]

Init ==
    /\ round = 1
    /\ line = 0
    /\ iter = 0
    /\ status = "idle"
    /\ errmsg = ""
    /\ symtab = DefineBuiltins(NewSymbolTable, 1)
    /\ consts = <<>>
    /\ globals = <<>>
    /\ initial = New
    /\ bytecode = NoBytecode
    /\ constants = <<>>
    /\ items = <<>>
    /\ sp = 0
    /\ frames = <<>>
    /\ stmtEnds = {}
    /\ env = [n \in Names |-> Nil]
    /\ expected = Nil
    /\ callInfo = <<>>
    /\ lastRet = NoCall
    /\ comp = New
    /\ resolved = NoResolved
    /\ looked = NoLookup

\* A line of the session: NewWithState, Compile, Bytecode.
CompileLine(p, it) ==
    /\ status = "idle"
    /\ LET c0 == NewWithState(symtab, consts)
           c == Compile(c0, Programs[p], it)
           r == RefRun(Programs[p], env)
       IN  /\ line' = p
           /\ iter' = it
           /\ initial' = c0
           /\ symtab' = c.symbols[1]
           /\ bytecode' = Bytecode(c)
           /\ errmsg' = c.err
           /\ status' = IF c.err # "" THEN "cerr" ELSE "compiled"
           /\ consts' = IF c.err # "" THEN consts ELSE c.constants
           /\ stmtEnds' = IF c.err # "" THEN {} ELSE StatementEnds(c0, Programs[p], it)
           /\ expected' = r.val
           /\ env' = IF c.err # "" THEN [n \in Names |-> Unknown] ELSE r.env
    /\ UNCHANGED <<round, globals, constants, items, sp, frames, callInfo, lastRet>>
    /\ UNCHANGED <<scopeVars, lookupVars>>

\* vm.New and vm.NewWithGlobals on the round's bytecode and the session's globals.
NewWithGlobals ==
    /\ status = "compiled"
    /\ constants' = bytecode.Constants
    /\ items' = <<>>
    /\ sp' = 0
    /\ frames' = <<NewFrame(CompiledFunction(bytecode.Instructions, 0, 0), 0)>>
    /\ status' = "running"
    /\ UNCHANGED <<round, line, iter, errmsg, symtab, consts, globals, initial, bytecode,
                   stmtEnds, env, expected, callInfo, lastRet>>
    /\ UNCHANGED <<scopeVars, lookupVars>>

\* The loop condition of Run.
LoopCondition ==
    /\ status = "running"
    /\ frames # <<>>
    /\ frames[Len(frames)].pointer < Len(frames[Len(frames)].fn.ins) - 1

\* The machine after `pointer++`, and the opcode the loop then reads.
Fetched == advance(Machine, 1)
Op == ByteAt(Instructions(Fetched), Pointer(Fetched))

Commit(m) ==
    /\ items' = m.items
    /\ sp' = m.sp
    /\ frames' = m.frames
    /\ globals' = m.globals
    /\ status' = m.status
    /\ errmsg' = m.errmsg
    /\ UNCHANGED <<round, line, iter, symtab, consts, initial, bytecode, constants,
                   stmtEnds, env, expected>>
    /\ UNCHANGED <<scopeVars, lookupVars>>

\* An iteration that is neither a call nor a return.
Plain(m) == Commit(m) /\ lastRet' = NoCall /\ UNCHANGED callInfo

ExecPop == LoopCondition /\ Op = Pop /\ Plain(runPop(Fetched))
ExecConstant == LoopCondition /\ Op = Constant /\ Plain(runConstant(Fetched))
ExecTrue == LoopCondition /\ Op = True /\ Plain(runTrue(Fetched))
ExecFalse == LoopCondition /\ Op = False /\ Plain(runFalse(Fetched))
ExecBang == LoopCondition /\ Op = Bang /\ Plain(runBang(Fetched))
ExecMinus == LoopCondition /\ Op = Minus /\ Plain(runMinus(Fetched))
ExecBinaryOp == LoopCondition /\ Op \in {Add, Sub, Mul, Div} /\ Plain(runBinaryOp(Fetched))
ExecComparison ==
    LoopCondition /\ Op \in {Equal, NotEqual, GreaterThan} /\ Plain(runComparison(Fetched))
ExecJump == LoopCondition /\ Op = Jump /\ Plain(runJump(Fetched))
ExecJumpNotTruthy == LoopCondition /\ Op = JumpNotTruthy /\ Plain(runJumpNotTruthy(Fetched))
ExecNull == LoopCondition /\ Op = Null /\ Plain(runNull(Fetched))
ExecSetGlobal == LoopCondition /\ Op = SetGlobal /\ Plain(runSetGlobal(Fetched))
ExecGetGlobal == LoopCondition /\ Op = GetGlobal /\ Plain(runGetGlobal(Fetched))
ExecSetLocal == LoopCondition /\ Op = SetLocal /\ Plain(runSetLocal(Fetched))
ExecGetLocal == LoopCondition /\ Op = GetLocal /\ Plain(runGetLocal(Fetched))
ExecArray == LoopCondition /\ Op = Array /\ Plain(runArray(Fetched))
ExecHash == LoopCondition /\ Op = Hash /\ Plain(runHash(Fetched))
ExecIndex == LoopCondition /\ Op = Index /\ Plain(runIndex(Fetched))

\* Call; callInfo records what the stack looked like when it was executed.
ExecCall ==
    /\ LoopCondition
    /\ Op = Call
    /\ LET m == runCall(Fetched) IN
       /\ Commit(m)
       /\ callInfo' = IF Len(m.frames) > Len(frames)
                      THEN Append(callInfo,
                                  [valid |-> TRUE, depth |-> Len(frames), slot |-> sp - 1,
                                   below |-> [k \in 1..(sp - 1) |-> Slot(items, k - 1)],
                                   value |-> Nil])
                      ELSE callInfo
       /\ lastRet' = NoCall

\* What a return leaves in lastRet: the record of the call it returns from.
Returned(m, value) ==
    IF callInfo = <<>> \/ m.status # "running" THEN NoCall
    ELSE [callInfo[Len(callInfo)] EXCEPT !.value = value]

ExecReturnValue ==
    /\ LoopCondition
    /\ Op = ReturnValue
    /\ LET m == runReturnValue(Fetched) IN
       /\ Commit(m)
       /\ lastRet' = Returned(m, top(Fetched))
       /\ callInfo' = SubSeq(callInfo, 1, Len(callInfo) - 1)

ExecReturn ==
    /\ LoopCondition
    /\ Op = Return
    /\ LET m == runReturn(Fetched) IN
       /\ Commit(m)
       /\ lastRet' = Returned(m, NULL)
       /\ callInfo' = SubSeq(callInfo, 1, Len(callInfo) - 1)

\* An opcode the switch has no case for: the loop just goes on.
ExecUnhandled == LoopCondition /\ Op \notin Handled /\ Plain(Fetched)

\* The loop condition fails: Run returns nil.
Finish ==
    /\ status = "running"
    /\ ~LoopCondition
    /\ status' = "done"
    /\ UNCHANGED <<round, line, iter, errmsg, symtab, consts, globals, initial, bytecode,
                   constants, items, sp, frames, stmtEnds, env, expected, callInfo, lastRet>>
    /\ UNCHANGED <<scopeVars, lookupVars>>

\* The session goes on to its next line, whatever the round ended with.
NextRound ==
    /\ status \in {"done", "cerr", "error", "panic"}
    /\ round < MaxRounds
    /\ round' = round + 1
    /\ status' = "idle"
    /\ errmsg' = ""
    /\ line' = 0
    /\ iter' = 0
    /\ initial' = New
    /\ bytecode' = NoBytecode
    /\ constants' = <<>>
    /\ items' = <<>>
    /\ sp' = 0
    /\ frames' = <<>>
    /\ stmtEnds' = {}
    /\ expected' = Nil
    /\ callInfo' = <<>>
    /\ lastRet' = NoCall
    /\ env' = IF status = "done" THEN env ELSE [n \in Names |-> Unknown]
    /\ UNCHANGED <<symtab, consts, globals>>
    /\ UNCHANGED <<scopeVars, lookupVars>>

Next ==
    \/ \E p \in Lines : \E it \in IterOrders(Programs[p]) : CompileLine(p, it)
    \/ NewWithGlobals
    \/ ExecPop
    \/ ExecConstant
    \/ ExecTrue
    \/ ExecFalse
    \/ ExecBang
    \/ ExecMinus
    \/ ExecBinaryOp
    \/ ExecComparison
    \/ ExecJump
    \/ ExecJumpNotTruthy
    \/ ExecNull
    \/ ExecSetGlobal
    \/ ExecGetGlobal
    \/ ExecSetLocal
    \/ ExecGetLocal
    \/ ExecArray
    \/ ExecHash
    \/ ExecIndex
    \/ ExecCall
    \/ ExecReturnValue
    \/ ExecReturn
    \/ ExecUnhandled
    \/ Finish
    \/ NextRound

Spec == Init /\ [][Next]_vars

\* VM.Result
Result == popped(Machine)

-----------------------------------------------------------------------------
(* A session of one line whose run recurses until a capacity is met.  Its  *)
(* calls keep no record of the stack they were made on.                    *)

ExecCallDeep ==
    /\ LoopCondition
    /\ Op = Call
    /\ Commit(runCall(Fetched))
    /\ UNCHANGED <<callInfo, lastRet>>

DeepNext ==
    \/ \E p \in DeepLines : CompileLine(p, 0)
    \/ NewWithGlobals
    \/ ExecPop
    \/ ExecConstant
    \/ ExecSetGlobal
    \/ ExecGetGlobal
    \/ ExecCallDeep
    \/ ExecReturnValue
    \/ ExecUnhandled
    \/ Finish

DeepSpec == Init /\ [][DeepNext]_vars

-----------------------------------------------------------------------------
(* A compiler walking scopes: it enters and leaves function literals,      *)
(* defines names in the current table and compiles identifiers.            *)

MaxTables == 4
MaxDefinitions == 3
MaxCode == 4
ScopeNames == {"a", "b"}

RECURSIVE Total(_)
Total(ns) == IF ns = <<>> THEN 0 ELSE Head(ns) + Total(Tail(ns))

\* The definitions made in the open tables, and the bytes emitted in the open scopes.
OpenDefinitions == Total([k \in 1..Len(comp.symbols) |-> comp.symbols[k].DefinitionCount])
OpenCode == Total([k \in 1..Len(comp.scopes) |-> Len(comp.scopes[k].instructions)])

\* The innermost table at or below d that defines the name itself; 0 when none does.
DefinedAt(tables, d, name) ==
    LET ks == {k \in 1..d : tables[k].store[name].Scope \in {GlobalScope, LocalScope}} IN
    IF ks = {} THEN 0 ELSE CHOOSE k \in ks : \A j \in ks : j <= k

\* enterScope, as FunctionLiteral calls it
ScopeEnter ==
    /\ Len(comp.symbols) < MaxTables
    /\ comp' = enterScope(comp)
    /\ resolved' = NoResolved
    /\ UNCHANGED <<sessionVars, lookupVars>>

\* leaveScope, as FunctionLiteral calls it
ScopeLeave ==
    /\ Len(comp.symbols) > 1
    /\ comp' = leaveScope(comp)
    /\ resolved' = NoResolved
    /\ UNCHANGED <<sessionVars, lookupVars>>

\* c.symbols.Define(name), as FunctionLiteral does for a parameter
ScopeDefine(name) ==
    /\ OpenDefinitions < MaxDefinitions
    /\ comp' = defineParams(comp, <<Identifier(name)>>)
    /\ resolved' = NoResolved
    /\ UNCHANGED <<sessionVars, lookupVars>>

\* Compile of an Identifier: Resolve, then loadSymbol.
ScopeCompileIdentifier(name) ==
    /\ DefinedAt(comp.symbols, Len(comp.symbols), name) # 0
    /\ OpenCode + 2 <= MaxCode
    /\ LET c == CompileIdentifier(comp, Identifier(name))
           e == c.scopes[Len(c.scopes)].emitted
       IN  /\ comp' = c
           /\ resolved' =
                [valid |-> TRUE, name |-> name, from |-> Len(comp.symbols),
                 definedAt |-> DefinedAt(comp.symbols, Len(comp.symbols), name),
                 symbol |-> Resolve(comp.symbols, name).symbol,
                 op |-> e.Opcode,
                 operand |-> IF e.Opcode = GetGlobal
                             THEN ReadUint16(currentInstructions(c), e.Position + 1)
                             ELSE ReadUint8(currentInstructions(c), e.Position + 1)]
    /\ UNCHANGED <<sessionVars, lookupVars>>

ScopeNext ==
    \/ ScopeEnter
    \/ ScopeLeave
    \/ \E name \in ScopeNames : ScopeDefine(name)
    \/ \E name \in ScopeNames : ScopeCompileIdentifier(name)

ScopeSpec == Init /\ [][ScopeNext]_vars

-----------------------------------------------------------------------------
(* A decoder handing bytes to Lookup.                                      *)

\* The opcodes Compile and loadSymbol pass to emit.
EmittedOpcodes ==
    {Constant, Pop, Add, Sub, Mul, Div, True, False, Null, Equal, NotEqual, GreaterThan,
     Bang, Minus, Jump, JumpNotTruthy, SetGlobal, GetGlobal, SetLocal, GetLocal,
     GetBuiltin, GetFree, Array, Hash, Index, Call, ReturnValue, Return, Closure}

LookupByte(b) ==
    /\ looked' = [valid |-> TRUE, byte |-> b, result |-> Lookup(b)]
    /\ UNCHANGED <<sessionVars, scopeVars>>

LookupNext == \E b \in 0..255 : LookupByte(b)

LookupSpec == Init /\ [][LookupNext]_vars

-----------------------------------------------------------------------------
(* Shapes of programs the properties speak about.                          *)

\* No function literal, call or return: statements, lets, ifs and blocks only.
NoCalls(prog) == KindsWithin(prog, Kinds \ {"FunctionLiteral", "CallExpression", "ReturnStatement"})

\* Top-level lets and expression statements over literals, names and operators.
StraightLine(prog) ==
    KindsWithin(prog, {"Program", "ExpressionStatement", "LetStatement", "IntegerLiteral",
                       "Boolean", "Identifier", "InfixExpression", "PrefixExpression"})

RECURSIVE Mentions(_, _)
Mentions(node, name) ==
    \/ node.kind = "Identifier" /\ node.value = name
    \/ \E k \in 1..Len(Children(node)) : Mentions(Children(node)[k], name)

\* No top-level let names itself in its initializer.
NoSelfInit(prog) ==
    \A k \in 1..Len(prog.stmts) :
        prog.stmts[k].kind = "LetStatement"
            => ~Mentions(prog.stmts[k].value, prog.stmts[k].name)

\* The last top-level statement is an if-expression.
LastIsIf(prog) ==
    /\ prog.stmts # <<>>
    /\ prog.stmts[Len(prog.stmts)].kind = "ExpressionStatement"
    /\ prog.stmts[Len(prog.stmts)].expr.kind = "IfExpression"

\* The program is the single statement `a < b` of two integer literals.
IsLess(prog) ==
    /\ Len(prog.stmts) = 1
    /\ prog.stmts[1].kind = "ExpressionStatement"
    /\ prog.stmts[1].expr.kind = "InfixExpression"
    /\ prog.stmts[1].expr.op = "<"
    /\ prog.stmts[1].expr.left.kind = "IntegerLiteral"
    /\ prog.stmts[1].expr.right.kind = "IntegerLiteral"

\* `b > a` for the program `a < b`.
Flipped(prog) ==
    Program(<<ExpressionStatement(
                InfixExpression(prog.stmts[1].expr.right, ">", prog.stmts[1].expr.left))>>)

\* The opcodes of an instruction stream, each found by its predecessor's widths.
RECURSIVE Sum(_)
Sum(ws) == IF ws = <<>> THEN 0 ELSE Head(ws) + Sum(Tail(ws))

RECURSIVE OpcodesFrom(_, _)
OpcodesFrom(ins, i) ==
    IF i >= Len(ins) THEN <<>>
    ELSE <<ByteAt(ins, i)>> \o OpcodesFrom(ins, i + 1 + Sum(OperandWidths(ByteAt(ins, i))))

Ran == status \in {"running", "done", "error", "panic"}
Known(d) == d.type \notin {"?", "nil"}

-----------------------------------------------------------------------------
(* Properties                                                              *)

\* C1: for every program Compile accepts that is made of expression statements,
\* lets, ifs and blocks, Run never drives the stack pointer below 0, leaves it
\* at 0 after each top-level statement and at the end, and Result() is then the
\* value of the last top-level expression statement.
C1_StackEmptyBetweenStatements ==
    (line # 0 /\ Ran /\ NoCalls(Programs[line])) =>
        /\ sp >= 0
        /\ (status = "running" /\ Len(frames) = 1 /\ (frames[1].pointer + 1) \in stmtEnds)
              => sp = 0
        /\ status = "done" => (sp = 0 /\ (Known(expected) => Result = expected))

\* C2: a Call argc that pushes a frame takes as callable the value at
\* stack[sp - argc - 1], gives the frame the frame pointer sp - argc and sets
\* sp to framePointer + localCount, so argument i is local slot i.
C2_CallTakesCalleeBelowArguments ==
    [][(LoopCondition /\ Op = Call /\ HasOperand(Instructions(Fetched), Pointer(Fetched), 1)
        /\ Len(frames') = Len(frames) + 1) =>
            LET argc == ReadUint8(Instructions(Fetched), Pointer(Fetched) + 1)
                frame == frames'[Len(frames')]
            IN  /\ frame.fn = Slot(items, sp - argc - 1)
                /\ frame.framePointer = sp - argc
                /\ sp' = frame.framePointer + frame.fn.localCount
                /\ \A i \in 0..(argc - 1) :
                      Slot(items', frame.framePointer + i) = Slot(items, sp - argc + i)]_vars

C4_WrongArityIsAnError ==
    [][(LoopCondition /\ Op = Call /\ HasOperand(Instructions(Fetched), Pointer(Fetched), 1)
        /\ LET argc == ReadUint8(Instructions(Fetched), Pointer(Fetched) + 1)
               callee == Slot(items, sp - argc - 1)
           IN  callee.type = "COMPILED_FUNCTION" /\ callee.paramCount # argc)
        => (status' = "error" /\ Len(frames') = Len(frames))]_vars

\* C5: executing Closure k n pops n values and pushes a Closure that wraps
\* constants[k] and holds the n values in the order they were pushed.
C5_ClosureCapturesFreeValues ==
    [][(LoopCondition /\ Op = Closure /\ HasOperand(Instructions(Fetched), Pointer(Fetched), 3)) =>
            LET k == ReadUint16(Instructions(Fetched), Pointer(Fetched) + 1)
                n == ReadUint8(Instructions(Fetched), Pointer(Fetched) + 3)
                closure == Slot(items', sp - n)
            IN  /\ status' = "running"
                /\ sp' = sp - n + 1
                /\ closure.type = "CLOSURE"
                /\ closure.ins = constants[k + 1].ins
                /\ closure.elems = [i \in 1..n |-> Slot(items, sp - n + i - 1)]]_vars

\* C6: when the if-expression that is the last statement of a program has been
\* executed (the loop is about to fetch the Pop that follows it), it has pushed
\* exactly one value: the value of the branch taken, Null without an alternate.
C6_IfPushesOneValue ==
    (line # 0 /\ status = "running" /\ NoCalls(Programs[line]) /\ LastIsIf(Programs[line])
     /\ Len(frames) = 1 /\ frames[1].pointer + 1 = Len(frames[1].fn.ins) - 1) =>
        /\ sp = 1
        /\ Known(expected) => Slot(items, 0) = expected

\* C7: the compiled `a < b` is byte for byte the compiled `b > a`, its opcodes
\* are Constant, Constant, GreaterThan, Pop, and its run yields the Boolean b > a.
C7_LessIsFlippedGreater ==
    (line # 0 /\ status # "idle" /\ IsLess(Programs[line])) =>
        /\ bytecode = Bytecode(Compile(initial, Flipped(Programs[line]), iter))
        /\ OpcodesFrom(bytecode.Instructions, 0) = <<Constant, Constant, GreaterThan, Pop>>
        /\ status \notin {"cerr", "error", "panic"}
        /\ status = "done" =>
              Result = BoolData(Programs[line].stmts[1].expr.right.value
                                > Programs[line].stmts[1].expr.left.value)

\* The run of `1 < 2` has ended with TRUE.
C7_Witness == status = "done" /\ line = 13 /\ Result = TRUE_

\* C8: the bytecode of a compile is the bytecode of every other compile of the
\* same AST from the same state, whatever order the Pairs maps are ranged in.
C8_CompileIsDeterministic ==
    (line # 0 /\ status # "idle") =>
        \A it \in {0, 1} : Bytecode(Compile(initial, Programs[line], it)) = bytecode

\* C9: in a round after rounds that all ended without error, a straight-line
\* program compiles and runs without error and Result() is its reference value,
\* reading the globals the earlier programs bound.
C9_GlobalsPersist ==
    (round >= 2 /\ line # 0 /\ StraightLine(Programs[line]) /\ expected.type # "?") =>
        /\ status \notin {"cerr", "error", "panic"}
        /\ (status = "done" /\ Known(expected)) => Result = expected

\* C9 restricted to programs in which no let names itself in its initializer:
\* there the globals and constants of earlier rounds are read as stored.
C9_GlobalsPersistUnlessRebound ==
    (round >= 2 /\ line # 0 /\ StraightLine(Programs[line]) /\ NoSelfInit(Programs[line])
     /\ expected.type # "?") =>
        /\ status \notin {"cerr", "error", "panic"}
        /\ (status = "done" /\ Known(expected)) => Result = expected

\* The second round has run `x + 1` on the x an earlier round bound to 5.
C9_Witness ==
    /\ round = 2 /\ status = "done" /\ line = 21
    /\ Len(bytecode.Constants) > 1
    /\ Result = Integer(6)


\* The position at which a name was first recorded in a Free list.
FirstCapture(free, name) ==
    (CHOOSE j \in 1..Len(free) :
        free[j].Name = name /\ \A i \in 1..(j - 1) : free[i].Name # name) - 1

Captured(free, name) == \E j \in 1..Len(free) : free[j].Name = name

\* What an identifier resolved from the table that defines it must come out as.
ResolvedWhereDefined ==
    /\ resolved.symbol.Scope = (IF resolved.definedAt = 1 THEN GlobalScope ELSE LocalScope)
    /\ resolved.op = (IF resolved.definedAt = 1 THEN GetGlobal ELSE GetLocal)
    /\ resolved.operand = resolved.symbol.Index

\* What an identifier resolved as a capture must come out as.
ResolvedAsFree ==
    /\ resolved.symbol.Scope = FreeScope
    /\ resolved.op = GetFree
    /\ resolved.operand = resolved.symbol.Index
    /\ Captured(comp.symbols[resolved.from].Free, resolved.name)
    /\ resolved.symbol.Index = FirstCapture(comp.symbols[resolved.from].Free, resolved.name)

\* C10: a name defined at depth d resolves from that table to Local if d > 0
\* else Global; from a deeper table it resolves to Free, with the index of its
\* first capture in that table's free list.
C10_ResolveScopes ==
    resolved.valid =>
        IF resolved.definedAt = resolved.from THEN ResolvedWhereDefined ELSE ResolvedAsFree

\* C10 as amended: from a deeper table a name defined at depth 0 resolves to
\* the Global symbol itself; only a name defined at depth d > 0 resolves to Free.
C10_ResolveScopesGlobalKept ==
    resolved.valid =>
        IF resolved.definedAt = resolved.from THEN ResolvedWhereDefined
        ELSE IF resolved.definedAt = 1
             THEN /\ resolved.symbol = comp.symbols[1].store[resolved.name]
                  /\ resolved.symbol.Scope = GlobalScope
                  /\ resolved.op = GetGlobal
                  /\ resolved.operand = resolved.symbol.Index
        ELSE ResolvedAsFree

\* A name defined in a function was resolved two function literals further in,
\* as the second capture of that table.
C10_Witness ==
    /\ resolved.valid
    /\ resolved.definedAt = 2
    /\ resolved.from = 4
    /\ resolved.symbol.Scope = FreeScope
    /\ resolved.symbol.Index = 1


\* The operands an arithmetic instruction is about to pop.
Right == Slot(items, sp - 1)
Left == Slot(items, sp - 2)

\* The instruction the loop is about to execute cannot be carried out.
CannotBeCarriedOut ==
    \/ /\ Op \in {Add, Sub, Mul, Div}
       /\ sp >= 2
       /\ Left.type # "nil" /\ Right.type # "nil"
       /\ \/ Left.type # "INTEGER"
          \/ Right.type # "INTEGER"
          \/ Op = Div /\ Right.v = 0
    \/ /\ Op = Call
       /\ HasOperand(Instructions(Fetched), Pointer(Fetched), 1)
       /\ LET argc == ReadUint8(Instructions(Fetched), Pointer(Fetched) + 1) IN
          /\ sp - argc - 1 >= 0
          /\ Slot(items, sp - argc - 1).type \notin {"nil", "COMPILED_FUNCTION", "CLOSURE", "BUILTIN"}

\* C11: an instruction that cannot be carried out (arithmetic on a non-Integer,
\* division by 0, a call of a value that is not callable) makes Run return an
\* error at that instruction, and no later instruction is executed.
C11_FailedInstructionReturnsError ==
    [][(LoopCondition /\ CannotBeCarriedOut) => (status' = "error" /\ ~LoopCondition')]_vars


\* The Call the loop is about to execute finds a compiled function on the stack
\* top and the frame stack full.
CallOnFullFrames ==
    /\ LoopCondition
    /\ Op = Call
    /\ top(Fetched).type = "COMPILED_FUNCTION"
    /\ Len(frames) >= FrameLimit

\* C12: the frame stack never holds more than FrameLimit frames, and a Call
\* executed when it is full makes Run return an error and pushes no frame.
C12_FullFrameStackIsAnError ==
    /\ [](Len(frames) <= FrameLimit)
    /\ [][CallOnFullFrames => (status' = "error" /\ frames' = frames)]_vars

\* C13: the stack pointer stays within [0, StackLimit] in every state of a run.
C13_StackPointerWithinCapacity ==
    status \in {"running", "done", "error", "panic"} => (sp >= 0 /\ sp <= StackLimit)


\* C14: after a Compile that returned an error, Bytecode() returns none of the
\* instructions and constants emitted before the error.
C14_NoBytecodeAfterCompileError ==
    status = "cerr" =>
        /\ bytecode.Instructions = <<>>
        /\ bytecode.Constants = initial.constants


\* C15: Lookup(b) returns the Operation, name and operand widths, of every
\* opcode the compiler emits, and the error "Undefined Opcode: <b>" for exactly
\* the other bytes.
C15_LookupKnowsEmittedOpcodes ==
    looked.valid =>
        IF looked.byte \in EmittedOpcodes
        THEN /\ looked.result.err = NoError
             /\ looked.result.operation =
                    Operation(OpcodeNames[looked.byte + 1], OperandWidths(looked.byte))
        ELSE /\ looked.result.err = [text |-> "Undefined Opcode: ", number |-> looked.byte]
             /\ looked.result.operation = NoOperation


\* The offsets at which the instructions of a stream start.
RECURSIVE BoundariesFrom(_, _)
BoundariesFrom(ins, i) ==
    IF i >= Len(ins) THEN {}
    ELSE {i} \cup BoundariesFrom(ins, i + 1 + Sum(OperandWidths(ByteAt(ins, i))))

\* C16: each time the loop of Run fetches an opcode, the instruction pointer is
\* at the first byte of an instruction of the current frame's stream.
C16_FetchAtInstructionStart ==
    LoopCondition => Pointer(Fetched) \in BoundariesFrom(Instructions(Fetched), 0)


\* The instruction streams of a bytecode: the program's and each compiled function's.
Streams(bc) ==
    {bc.Instructions}
    \cup {bc.Constants[k].ins : k \in {j \in 1..Len(bc.Constants) :
                                          bc.Constants[j].type = "COMPILED_FUNCTION"}}

Starts(ins) == BoundariesFrom(ins, 0)

\* Every JumpNotTruthy of the stream targets the instruction after a later Jump,
\* every Jump is the one some earlier JumpNotTruthy skips and targets an
\* instruction start (or the end) not before the one that follows it, and no
\* operand is the placeholder.
JumpsPatched(ins) ==
    \A p \in Starts(ins) :
        /\ ByteAt(ins, p) = JumpNotTruthy =>
              LET t == ReadUint16(ins, p + 1) IN
              /\ t # 9999
              /\ t - 3 > p
              /\ (t - 3) \in Starts(ins)
              /\ ByteAt(ins, t - 3) = Jump
        /\ ByteAt(ins, p) = Jump =>
              LET u == ReadUint16(ins, p + 1) IN
              /\ u # 9999
              /\ u >= p + 3
              /\ u \in Starts(ins) \cup {Len(ins)}
              /\ \E q \in Starts(ins) :
                    q < p /\ ByteAt(ins, q) = JumpNotTruthy /\ ReadUint16(ins, q + 1) = p + 3

\* The if-expression that is top-level statement k, compiled after the
\* statements before it: its Jump targets the end of what it emitted, and
\* without an alternate what follows the Jump is the one instruction Null.
TopLevelIfPatched(c, prog, k, it) ==
    LET node == prog.stmts[k].expr
        c0 == Compile(c, Program(SubSeq(prog.stmts, 1, k - 1)), it)
        jumpNotTruthyPos == Len(currentInstructions(Compile(c0, node.cond, it)))
        ins == currentInstructions(Compile(c0, node, it))
        t == ReadUint16(ins, jumpNotTruthyPos + 1)
    IN  /\ ByteAt(ins, jumpNotTruthyPos) = JumpNotTruthy
        /\ ByteAt(ins, t - 3) = Jump
        /\ ReadUint16(ins, t - 2) = Len(ins)
        /\ node.alternate.kind = "nil" => (ByteAt(ins, t) = Null /\ Len(ins) = t + 1)

IfStatements(prog) ==
    {k \in 1..Len(prog.stmts) :
        prog.stmts[k].kind = "ExpressionStatement" /\ prog.stmts[k].expr.kind = "IfExpression"}

HasIf(prog) == ~KindsWithin(prog, Kinds \ {"IfExpression"})

\* C17: in the bytecode of a compiled program no jump keeps the placeholder 9999;
\* each JumpNotTruthy targets the instruction after its Jump and each Jump the
\* offset just past the alternate (or the Null), both instruction starts of the
\* finished stream, nested if-expressions included.
C17_JumpsArePatched ==
    (line # 0 /\ status \notin {"idle", "cerr"}) =>
        /\ \A ins \in Streams(bytecode) : JumpsPatched(ins)
        /\ \A k \in IfStatements(Programs[line]) :
              TopLevelIfPatched(initial, Programs[line], k, iter)

\* `if (true) { if (true) { 1 } }; 2` is compiled: the Jump of the inner if
\* targets the Jump of the outer one, which took the place of the stripped Pop.
C17_Witness ==
    /\ line = 35
    /\ status = "compiled"
    /\ \E p \in Starts(bytecode.Instructions) :
          /\ ByteAt(bytecode.Instructions, p) = Jump
          /\ ByteAt(bytecode.Instructions, ReadUint16(bytecode.Instructions, p + 1)) = Jump


\* The opcode of the last instruction of a stream.
LastOpcode(ins) ==
    ByteAt(ins, CHOOSE p \in Starts(ins) : \A q \in Starts(ins) : q <= p)

FunctionConstants(bc) ==
    {k \in 1..Len(bc.Constants) : bc.Constants[k].type = "COMPILED_FUNCTION"}

\* The top-level statements that are a function literal, or a let of one.
FunctionStatements(prog) ==
    {k \in 1..Len(prog.stmts) :
        \/ prog.stmts[k].kind = "ExpressionStatement" /\ prog.stmts[k].expr.kind = "FunctionLiteral"
        \/ prog.stmts[k].kind = "LetStatement" /\ prog.stmts[k].value.kind = "FunctionLiteral"}

\* The function literal of top-level statement k: the stream of its constant is
\* the compiled body with its trailing Pop rewritten in place to ReturnValue,
\* the body itself when it ends in a return statement, and otherwise the body
\* followed by Return.
TopLevelFunctionEnds(c, prog, k, it) ==
    LET st == prog.stmts[k]
        node == IF st.kind = "LetStatement" THEN st.value ELSE st.expr
        c0 == Compile(c, Program(SubSeq(prog.stmts, 1, k - 1)), it)
        c1 == IF st.kind = "LetStatement"
              THEN [c0 EXCEPT !.symbols = Define(c0.symbols, st.name).tables]
              ELSE c0
        cb == Compile(defineParams(enterScope(c1), node.params), node.body, it)
        body == currentInstructions(cb)
        stmts == node.body.stmts
        last == stmts[Len(stmts)]
        fn == bytecode.Constants[Len(cb.constants) + 1]
    IN  /\ fn.type = "COMPILED_FUNCTION"
        /\ IF stmts # <<>> /\ last.kind = "ExpressionStatement"
           THEN /\ ByteAt(body, Len(body) - 1) = Pop
                /\ fn.ins = SubSeq(body, 1, Len(body) - 1) \o <<ReturnValue>>
           ELSE IF stmts # <<>> /\ last.kind = "ReturnStatement"
           THEN fn.ins = body
           ELSE fn.ins = body \o <<Return>>

\* C18: the stream of every CompiledFunction in the constant pool ends in
\* ReturnValue or Return: a body ending in an expression statement has its Pop
\* rewritten in place to ReturnValue, and a body that does not end in
\* ReturnValue gets a Return appended.
C18_FunctionsEndInReturn ==
    (line # 0 /\ status \notin {"idle", "cerr"}) =>
        /\ \A k \in FunctionConstants(bytecode) :
              /\ bytecode.Constants[k].ins # <<>>
              /\ LastOpcode(bytecode.Constants[k].ins) \in {ReturnValue, Return}
        /\ \A k \in FunctionStatements(Programs[line]) :
              TopLevelFunctionEnds(initial, Programs[line], k, iter)

\* `let f = fn() { let a = true; a }; f()` is compiled: the body's Pop is now
\* the ReturnValue that ends the function's stream.
C18_Witness ==
    /\ line = 6
    /\ status = "compiled"
    /\ \E k \in FunctionConstants(bytecode) :
          bytecode.Constants[k].ins = <<True, SetLocal, 0, GetLocal, 0, ReturnValue>>


\* The local indexes the SetLocal and GetLocal instructions of a stream address.
LocalIndexes(ins) ==
    {ReadUint8(ins, p + 1) : p \in {q \in Starts(ins) : ByteAt(ins, q) \in {SetLocal, GetLocal}}}

\* C19: while the frame of a called function is the current frame, the stack
\* pointer is not below framePointer + localCount, and every SetLocal/GetLocal
\* of the function addresses a slot in [framePointer, framePointer + localCount).
C19_EvaluationAboveLocals ==
    (status = "running" /\ Len(frames) >= 2) =>
        LET frame == frames[Len(frames)] IN
        /\ sp >= frame.framePointer + frame.fn.localCount
        /\ \A i \in LocalIndexes(frame.fn.ins) : i < frame.fn.localCount


\* Every Jump and JumpNotTruthy of the stream targets an offset after its own
\* and not past the end of the stream.
JumpsForward(ins) ==
    \A p \in {q \in Starts(ins) : ByteAt(ins, q) \in {Jump, JumpNotTruthy}} :
        ReadUint16(ins, p + 1) > p /\ ReadUint16(ins, p + 1) <= Len(ins)

NoCallExpression(prog) == KindsWithin(prog, Kinds \ {"CallExpression"})

\* An iteration of Run on a program without a call after which Run goes on.
RunGoesOn ==
    /\ line # 0 /\ NoCallExpression(Programs[line])
    /\ LoopCondition
    /\ status' = "running" /\ frames' # <<>>

C21_MainFrameStays ==
    Ran => (frames # <<>> /\ frames[1].framePointer = 0 /\ frames[1].fn.ins = bytecode.Instructions)

====
